---- MODULE Spec2Model ----
(***************************************************************************)
(* Widget / WidgetType sample application: the WidgetType library          *)
(* (validators and hooks), the Sequelize models behind it (unique code,    *)
(* foreign key widgets.widgetTypeId -> widget_types.id), the Widget        *)
(* library, the Express routes of /widgets and the Database object that    *)
(* owns the connection, synchronizes the tables and seeds them; and the    *)
(* browser client: WidgetContextProvider with its pending async calls and  *)
(* the ClientCache accessors.                                              *)
(*                                                                         *)
(* A string is a sequence of one-character strings, so that trim(),        *)
(* toUpperCase(), length and the regular expressions of the hooks are      *)
(* computed character by character.                                        *)
(***************************************************************************)
EXTENDS Integers, Sequences, FiniteSets, TLC

VARIABLES
    widgetTypes,   \* table widget_types: id -> [code, name, isActive]
    widgets,       \* table widgets: id -> [widgetTypeId, name, isActive]
    nextTypeId,    \* ids handed out so far to widget types (UUIDs are never reused)
    nextWidgetId,  \* ids handed out so far to widgets
    result,        \* the last library operation: what was asked, how it ended
    response,      \* the last HTTP exchange on /widgets: request kind and status
    isInitialized, \* Database.isInitialized
    isClosed,      \* Database.isClosed
    inFlight,      \* Widget creates between their validation and their INSERT
    provider,      \* WidgetContextProvider: [widgets, widgetTypes, loading, error]
    calls,         \* the client's pending async calls: slot -> [op, pc, ...]
    _widgetCache   \* ClientCache: the module variable _widgetCache

\* the state of the browser client
clientVars == <<provider, calls, _widgetCache>>

vars == <<widgetTypes, widgets, nextTypeId, nextWidgetId, result, response,
          isInitialized, isClosed, inFlight, clientVars>>

----------------------------------------------------------------------------
(* Bounds of the model *)

MaxTypes == 2        \* widget type ids ever handed out
MaxWidgets == 1      \* widget ids ever handed out
MaxShortLen == 1     \* length of the exhaustively enumerated code inputs
MaxAdded == 1        \* rows written to each table of a Database besides the seed rows
MaxInFlight == 1     \* Widget creates between validation and INSERT at one time
MaxCalls == 2        \* pending calls of the browser client at one time
MaxDeleted == 2      \* widget ids 1..MaxDeleted are the ones the client deletes

(* Program constants *)

MaxCodeLen == 50     \* widget type code, validators and STRING(50)
MaxNameLen == 255    \* name, validators and STRING(255)

----------------------------------------------------------------------------
(* Strings *)

LowerCase == {"a"}
UpperCase == {"A"}
WhiteSpace == {" "}
Alphabet == LowerCase \cup UpperCase \cup WhiteSpace \cup {"_", "1"}

\* String.prototype.toUpperCase, one character
UpperChar(c) == IF c = "a" THEN "A" ELSE c

toUpperCase(s) == [i \in 1..Len(s) |-> UpperChar(s[i])]

RECURSIVE TrimStart(_)
TrimStart(s) ==
    IF s # <<>> /\ Head(s) \in WhiteSpace THEN TrimStart(Tail(s)) ELSE s

RECURSIVE TrimEnd(_)
TrimEnd(s) ==
    IF s # <<>> /\ s[Len(s)] \in WhiteSpace
    THEN TrimEnd(SubSeq(s, 1, Len(s) - 1))
    ELSE s

\* String.prototype.trim
trim(s) == TrimEnd(TrimStart(s))

\* n copies of character c ('A'.repeat(n))
Repeat(c, n) == [i \in 1..n |-> c]

\* /^[a-zA-Z_]+$/.test(s)
LettersAndUnderscores(s) ==
    /\ Len(s) >= 1
    /\ \A i \in 1..Len(s) : s[i] \in LowerCase \cup UpperCase \cup {"_"}

\* /^[a-z]+$/.test(s)
PureLowerCase(s) ==
    /\ Len(s) >= 1
    /\ \A i \in 1..Len(s) : s[i] \in LowerCase

\* /[A-Z]/.test(s) && /[a-z]/.test(s)
MixedCase(s) ==
    /\ \E i \in 1..Len(s) : s[i] \in UpperCase
    /\ \E i \in 1..Len(s) : s[i] \in LowerCase

\* a property of a request object that may be missing (undefined)
Has(item, f) == f \in DOMAIN item

\* JavaScript truthiness of an optional string property
Truthy(item, f) == Has(item, f) /\ item[f] # <<>>

\* { ...item, [f]: v }
With(item, f, v) ==
    [g \in DOMAIN item \cup {f} |-> IF g = f THEN v ELSE item[g]]

----------------------------------------------------------------------------
(* WidgetType library: hooks and validators *)

\* CodeFormatRejected without the mixed-case check
CodeFormatRejectedNoMixedCase(code) ==
    LET trimmedCode == trim(code) IN
    \/ ~LettersAndUnderscores(trimmedCode)
    \/ PureLowerCase(trimmedCode)

\* CodeFormatRejected without the check of the characters
CodeFormatRejectedAnyCharacter(code) ==
    LET trimmedCode == trim(code) IN
    \/ PureLowerCase(trimmedCode)
    \/ MixedCase(trimmedCode)

\* the three format checks shared by preCreate and preUpdate
CodeFormatRejected(code) ==
    LET trimmedCode == trim(code) IN
    \/ ~LettersAndUnderscores(trimmedCode)
    \/ PureLowerCase(trimmedCode)
    \/ MixedCase(trimmedCode)

\* preCreate that trims the code without upper-casing it
preCreateNoUpperCase(widgetType) ==
    IF Truthy(widgetType, "code") /\ CodeFormatRejected(widgetType.code)
    THEN [ok |-> FALSE, item |-> widgetType]
    ELSE
      LET a == IF Truthy(widgetType, "code")
               THEN With(widgetType, "code", trim(widgetType.code))
               ELSE widgetType
          b == IF Truthy(a, "name") THEN With(a, "name", trim(a.name)) ELSE a
          c == IF ~Has(b, "isActive") THEN With(b, "isActive", TRUE) ELSE b
      IN [ok |-> TRUE, item |-> c]

\* preCreate that leaves the name as it was supplied
preCreateNoNameTrim(widgetType) ==
    IF Truthy(widgetType, "code") /\ CodeFormatRejected(widgetType.code)
    THEN [ok |-> FALSE, item |-> widgetType]
    ELSE
      LET a == IF Truthy(widgetType, "code")
               THEN With(widgetType, "code", trim(toUpperCase(widgetType.code)))
               ELSE widgetType
          c == IF ~Has(a, "isActive") THEN With(a, "isActive", TRUE) ELSE a
      IN [ok |-> TRUE, item |-> c]

\* hooks.preCreate: throws (ok = FALSE) or returns the normalized item
preCreate(widgetType) ==
    IF Truthy(widgetType, "code") /\ CodeFormatRejected(widgetType.code)
    THEN [ok |-> FALSE, item |-> widgetType]
    ELSE
      LET a == IF Truthy(widgetType, "code")
               THEN With(widgetType, "code", trim(toUpperCase(widgetType.code)))
               ELSE widgetType
          b == IF Truthy(a, "name") THEN With(a, "name", trim(a.name)) ELSE a
          c == IF ~Has(b, "isActive") THEN With(b, "isActive", TRUE) ELSE b
      IN [ok |-> TRUE, item |-> c]

\* validators.onCreate: TRUE when no error is pushed
onCreate(item) ==
    /\ Truthy(item, "code")
    /\ Len(trim(item.code)) # 0
    /\ Len(trim(item.code)) <= MaxCodeLen
    /\ Truthy(item, "name")
    /\ Len(trim(item.name)) # 0
    /\ Len(item.name) <= MaxNameLen

\* preUpdate that lets codes of lower-case letters only through
preUpdateAllowsLowerCase(updates) ==
    IF /\ Truthy(updates, "code")
       /\ \/ ~LettersAndUnderscores(trim(updates.code))
          \/ MixedCase(trim(updates.code))
    THEN [ok |-> FALSE, item |-> updates]
    ELSE
      LET a == IF Truthy(updates, "code")
               THEN With(updates, "code", trim(toUpperCase(updates.code)))
               ELSE updates
          b == IF Truthy(a, "name") THEN With(a, "name", trim(a.name)) ELSE a
      IN [ok |-> TRUE, item |-> b]

\* hooks.preUpdate: throws (ok = FALSE) or returns the normalized updates
preUpdate(updates) ==
    IF Truthy(updates, "code") /\ CodeFormatRejected(updates.code)
    THEN [ok |-> FALSE, item |-> updates]
    ELSE
      LET a == IF Truthy(updates, "code")
               THEN With(updates, "code", trim(toUpperCase(updates.code)))
               ELSE updates
          b == IF Truthy(a, "name") THEN With(a, "name", trim(a.name)) ELSE a
      IN [ok |-> TRUE, item |-> b]

\* validators.onUpdate, the checks: TRUE when no error is pushed
onUpdateValid(updates) ==
    /\ Has(updates, "code") =>
          /\ updates.code # <<>>
          /\ Len(trim(updates.code)) # 0
          /\ Len(trim(updates.code)) <= MaxCodeLen
    /\ Has(updates, "name") =>
          /\ updates.name # <<>>
          /\ Len(trim(updates.name)) # 0
          /\ Len(updates.name) <= MaxNameLen

\* validators.onUpdate, the normalization done once the checks pass
onUpdateNormalize(updates) ==
    LET a == IF Truthy(updates, "code")
             THEN With(updates, "code", trim(toUpperCase(updates.code)))
             ELSE updates
    IN IF Truthy(a, "name") THEN With(a, "name", trim(a.name)) ELSE a

----------------------------------------------------------------------------
(* Sequelize models: the tables and their constraints *)

\* validate: { len: [1, n], notEmpty: true } together with allowNull: false
ModelFieldValid(row, f, n) ==
    /\ Has(row, f)
    /\ Len(row[f]) >= 1
    /\ Len(row[f]) <= n

\* a table without the unique index on code
CodeTakenNoIndex(code, id) == FALSE

\* unique index on widget_types.code: another row already holds the code
CodeTaken(code, id) ==
    \E t \in DOMAIN widgetTypes : t # id /\ widgetTypes[t].code = code

\* the error WidgetTypeModel raises for a row to be written under id
\* (id = 0: an insert), or "none"
WidgetTypeModelError(row, id) ==
    IF ~(ModelFieldValid(row, "code", MaxCodeLen) /\ ModelFieldValid(row, "name", MaxNameLen))
    THEN "SequelizeValidationError"
    ELSE IF CodeTaken(row.code, id)
    THEN "SequelizeUniqueConstraintError"
    ELSE "none"

\* widgets.widgetTypeId REFERENCES widget_types(id), foreign keys enforced
ForeignKeyHolds(typeId) == typeId \in DOMAIN widgetTypes

\* deleting a widget type without touching the widgets table
WidgetsAfterTypeDeleteNoCascade(id) == widgets

\* WidgetTypeModel.hasMany(WidgetModel) over a NOT NULL foreign key:
\* ON DELETE CASCADE. The widgets left once widget type id is deleted.
WidgetsAfterTypeDelete(id) ==
    LET kept == {w \in DOMAIN widgets : widgets[w].widgetTypeId # id}
    IN [w \in kept |-> widgets[w]]

\* no HTTP request is being answered: the library was called directly
NoResponse == [route |-> "none", status |-> 0, rejected |-> "no"]

\* no library operation has run yet
NoResult == [op |-> "none", input |-> <<>>, key |-> 0, error |-> "none"]

\* a removal that leaves the row in its table (a soft delete)
WithoutKeepsRow(table, id) == table

\* a table with the row of key id taken out
Without(table, id) == [k \in DOMAIN table \ {id} |-> table[k]]

\* a table with row written under key id
Put(table, id, row) ==
    [k \in DOMAIN table \cup {id} |-> IF k = id THEN row ELSE table[k]]

----------------------------------------------------------------------------
(* WidgetType library: operations *)

\* what create raises before the row reaches the model: the preCreate hook
\* runs first, the onCreate validator on what the hook returns
WidgetTypeCreateCheck(item) ==
    LET hooked == preCreate(item) IN
    IF ~hooked.ok THEN "HookError"
    ELSE IF ~onCreate(hooked.item) THEN "CreateValidationError"
    ELSE "none"

\* what update raises before the row reaches the model
WidgetTypeUpdateCheck(updates) ==
    LET hooked == preUpdate(updates) IN
    IF ~hooked.ok THEN "HookError"
    ELSE IF ~onUpdateValid(hooked.item) THEN "UpdateValidationError"
    ELSE "none"

\* the updates as they reach the model
WidgetTypeUpdateRow(updates) == onUpdateNormalize(preUpdate(updates).item)

\* the stored row after the updates are applied to it
Merge(row, updates) ==
    [f \in DOMAIN row |-> IF Has(updates, f) THEN updates[f] ELSE row[f]]

\* library.operations.create(item)
CreateWidgetType(item) ==
    LET check == WidgetTypeCreateCheck(item)
        row == preCreate(item).item
        error == IF check # "none" THEN check ELSE WidgetTypeModelError(row, 0)
        id == nextTypeId
    IN
    /\ error = "none" => nextTypeId <= MaxTypes
    /\ IF error = "none"
       THEN /\ widgetTypes' = Put(widgetTypes, id,
                  [code |-> row.code, name |-> row.name, isActive |-> row.isActive])
            /\ nextTypeId' = nextTypeId + 1
       ELSE UNCHANGED <<widgetTypes, nextTypeId>>
    /\ result' = [op |-> "createWidgetType", input |-> item,
                  key |-> IF error = "none" THEN id ELSE 0, error |-> error]
    /\ response' = NoResponse
    /\ UNCHANGED <<widgets, nextWidgetId, isInitialized, isClosed, inFlight, clientVars>>

\* library.operations.update(key, updates)
UpdateWidgetType(id, updates) ==
    LET check == WidgetTypeUpdateCheck(updates)
        row == WidgetTypeUpdateRow(updates)
        error == IF check # "none" THEN check
                 ELSE IF id \notin DOMAIN widgetTypes THEN "NotFoundError"
                 ELSE WidgetTypeModelError(Merge(widgetTypes[id], row), id)
    IN
    /\ widgetTypes' = IF error = "none"
                      THEN Put(widgetTypes, id, Merge(widgetTypes[id], row))
                      ELSE widgetTypes
    /\ result' = [op |-> "updateWidgetType", input |-> updates,
                  key |-> id, error |-> error]
    /\ response' = NoResponse
    /\ UNCHANGED <<widgets, nextTypeId, nextWidgetId, isInitialized, isClosed, inFlight, clientVars>>

\* library.operations.remove(key), deleteOnRemove: true
RemoveWidgetType(id) ==
    LET error == IF id \notin DOMAIN widgetTypes THEN "NotFoundError" ELSE "none"
    IN
    /\ IF error = "none"
       THEN /\ widgetTypes' = Without(widgetTypes, id)
            /\ widgets' = WidgetsAfterTypeDelete(id)
       ELSE UNCHANGED <<widgetTypes, widgets>>
    /\ result' = [op |-> "removeWidgetType", input |-> <<>>,
                  key |-> id, error |-> error]
    /\ response' = NoResponse
    /\ UNCHANGED <<nextTypeId, nextWidgetId, isInitialized, isClosed, inFlight, clientVars>>

\* library.operations.get(key)
GetWidgetType(id) ==
    /\ result' = [op |-> "getWidgetType", input |-> <<>>, key |-> id,
                  error |-> IF id \in DOMAIN widgetTypes THEN "none"
                            ELSE "NotFoundError"]
    /\ response' = NoResponse
    /\ UNCHANGED <<widgetTypes, widgets, nextTypeId, nextWidgetId, isInitialized, isClosed, inFlight, clientVars>>

----------------------------------------------------------------------------
(* Widget library: operations *)

\* a create check that does not look at the widget type's isActive
WidgetCreateCheckIgnoresActive(item) ==
    IF /\ Has(item, "widgetTypeId")
       /\ item.widgetTypeId \in DOMAIN widgetTypes
       /\ Truthy(item, "name")
       /\ Len(trim(item.name)) # 0
       /\ Len(trim(item.name)) <= MaxNameLen
    THEN "none"
    ELSE "CreateValidationError"

\* what the Widget library's create raises before the row reaches the model:
\* widgetTypeId and name are required, the name is at most 255 characters,
\* and the referenced widget type must exist and be active
WidgetCreateCheck(item) ==
    IF /\ Has(item, "widgetTypeId")
       /\ item.widgetTypeId \in DOMAIN widgetTypes
       /\ widgetTypes[item.widgetTypeId].isActive
       /\ Truthy(item, "name")
       /\ Len(trim(item.name)) # 0
       /\ Len(trim(item.name)) <= MaxNameLen
    THEN "none"
    ELSE "CreateValidationError"

\* a create row that keeps the name as it was supplied
WidgetCreateRowNoTrim(item) ==
    [widgetTypeId |-> item.widgetTypeId,
     name |-> item.name,
     isActive |-> IF Has(item, "isActive") THEN item.isActive ELSE TRUE]

\* the row the Widget library's create hands to the model: name trimmed,
\* isActive defaulting to true
WidgetCreateRow(item) ==
    [widgetTypeId |-> item.widgetTypeId,
     name |-> trim(item.name),
     isActive |-> IF Has(item, "isActive") THEN item.isActive ELSE TRUE]

\* the error WidgetModel raises for a row to be written, or "none"
WidgetModelError(row) ==
    IF ~ModelFieldValid(row, "name", MaxNameLen)
    THEN "SequelizeValidationError"
    ELSE IF ~ForeignKeyHolds(row.widgetTypeId)
    THEN "SequelizeForeignKeyConstraintError"
    ELSE "none"

\* the outcome of widgetLibrary.operations.create(item): the error raised
\* ("none": stored) and the row stored
WidgetCreateOutcome(item) ==
    LET check == WidgetCreateCheck(item) IN
    IF check # "none" THEN [error |-> check, row |-> <<>>]
    ELSE [error |-> WidgetModelError(WidgetCreateRow(item)),
          row |-> WidgetCreateRow(item)]

\* an update that trims the supplied name as create does
WidgetUpdateOutcomeTrims(id, updates) ==
    LET trimmed == IF Has(updates, "name")
                   THEN [updates EXCEPT !.name = trim(updates.name)]
                   ELSE updates IN
    IF id \notin DOMAIN widgets THEN [error |-> "NotFoundError", row |-> <<>>]
    ELSE [error |-> WidgetModelError(Merge(widgets[id], trimmed)),
          row |-> Merge(widgets[id], trimmed)]

\* the outcome of widgetLibrary.operations.update(key, updates): the
\* supplied fields are written as they are (the name is not trimmed)
WidgetUpdateOutcome(id, updates) ==
    IF id \notin DOMAIN widgets THEN [error |-> "NotFoundError", row |-> <<>>]
    ELSE [error |-> WidgetModelError(Merge(widgets[id], updates)),
          row |-> Merge(widgets[id], updates)]

\* the outcome of widgetLibrary.operations.remove(key)
WidgetRemoveOutcome(id) ==
    IF id \notin DOMAIN widgets THEN "NotFoundError" ELSE "none"

\* the tables after widgetLibrary.operations.create(item)
ApplyWidgetCreate(item) ==
    LET out == WidgetCreateOutcome(item) IN
    /\ out.error = "none" => nextWidgetId <= MaxWidgets
    /\ IF out.error = "none"
       THEN /\ widgets' = Put(widgets, nextWidgetId, out.row)
            /\ nextWidgetId' = nextWidgetId + 1
       ELSE UNCHANGED <<widgets, nextWidgetId>>
    /\ result' = [op |-> "createWidget", input |-> item,
                  key |-> IF out.error = "none" THEN nextWidgetId ELSE 0,
                  error |-> out.error]
    /\ UNCHANGED <<widgetTypes, nextTypeId, isInitialized, isClosed, inFlight, clientVars>>

\* the tables after widgetLibrary.operations.update(key, updates)
ApplyWidgetUpdate(id, updates) ==
    LET out == WidgetUpdateOutcome(id, updates) IN
    /\ widgets' = IF out.error = "none" THEN Put(widgets, id, out.row) ELSE widgets
    /\ result' = [op |-> "updateWidget", input |-> updates,
                  key |-> id, error |-> out.error]
    /\ UNCHANGED <<widgetTypes, nextTypeId, nextWidgetId, isInitialized, isClosed, inFlight, clientVars>>

\* the tables after widgetLibrary.operations.remove(key)
ApplyWidgetRemove(id) ==
    LET error == WidgetRemoveOutcome(id) IN
    /\ widgets' = IF error = "none" THEN Without(widgets, id) ELSE widgets
    /\ result' = [op |-> "removeWidget", input |-> <<>>,
                  key |-> id, error |-> error]
    /\ UNCHANGED <<widgetTypes, nextTypeId, nextWidgetId, isInitialized, isClosed, inFlight, clientVars>>

\* widgetLibrary.operations.create(item), first part: the validators run
\* (their lookup of the widget type is awaited) and, when they accept, the
\* item waits for its INSERT; other requests are served in between
ValidateWidgetCreate(item) ==
    LET check == WidgetCreateCheck(item) IN
    /\ Cardinality(inFlight) < MaxInFlight
    /\ inFlight' = IF check = "none" THEN inFlight \cup {item} ELSE inFlight
    /\ result' = [op |-> "validateWidget", input |-> item, key |-> 0, error |-> check]
    /\ response' = NoResponse
    /\ UNCHANGED <<widgetTypes, widgets, nextTypeId, nextWidgetId, isInitialized,
                   isClosed, clientVars>>

\* widgetLibrary.operations.create(item), second part: the INSERT of the
\* row of a validated item, checked by the model and the foreign key only
InsertWidget(item) ==
    /\ item \in inFlight
    /\ LET row == WidgetCreateRow(item)
           error == WidgetModelError(row)
       IN
       /\ error = "none" => nextWidgetId <= MaxWidgets
       /\ IF error = "none"
          THEN /\ widgets' = Put(widgets, nextWidgetId, row)
               /\ nextWidgetId' = nextWidgetId + 1
          ELSE UNCHANGED <<widgets, nextWidgetId>>
       /\ result' = [op |-> "createWidget", input |-> item,
                     key |-> IF error = "none" THEN nextWidgetId ELSE 0,
                     error |-> error]
    /\ inFlight' = inFlight \ {item}
    /\ response' = NoResponse
    /\ UNCHANGED <<widgetTypes, nextTypeId, isInitialized, isClosed, clientVars>>

----------------------------------------------------------------------------
(* Express routes of /widgets *)

\* the fragments the route handlers look for (message.includes) that the
\* message of an error of the given name contains
ErrorMessage(name) ==
    CASE name = "CreateValidationError" -> {"Validation failed"}
      [] name = "NotFoundError" -> {"not found"}
      [] name = "UpdateError" -> {"Update Failed"}
      [] OTHER -> {}

\* router.post('/'): the status answered when create threw the error
PostErrorStatus(name) ==
    IF \/ name \in {"CreateValidationError", "ValidationError", "SequelizeValidationError"}
       \/ ErrorMessage(name) \cap {"validation", "Validation failed", "required",
              "must be", "cannot be", "notNull Violation", "cannot be null",
              "Required field"} # {}
    THEN 400
    ELSE 500

\* a PUT catch block that takes only UpdateError for a missing widget
PutErrorStatusNoNotFound(name) ==
    IF name = "UpdateError" THEN 404 ELSE 500

\* router.put('/:id'): the status answered when update threw the error
PutErrorStatus(name) ==
    IF \/ name \in {"NotFoundError", "UpdateError"}
       \/ ErrorMessage(name) \cap {"not found", "Update Failed"} # {}
    THEN 404
    ELSE 500

\* router.delete('/:id'): the status answered when remove threw the error
DeleteErrorStatus(name) ==
    IF \/ name \in {"NotFoundError", "RemoveError"}
       \/ ErrorMessage(name) \cap {"not found"} # {}
    THEN 404
    ELSE 500

\* router.get('/:id'): the status answered when get threw the error
GetErrorStatus(name) ==
    IF name = "NotFoundError" \/ ErrorMessage(name) \cap {"not found"} # {}
    THEN 404
    ELSE 500

\* the finderParams query strings that JSON.parse accepts
ParsableJson == {"{}", "{\"widgetTypeId\":1}"}

\* the finders of the Widget library
Finders == {"active", "byType", "byTypeCode"}

\* POST /widgets with the given body (the empty object: no field at all)
PostWidget(body) ==
    IF DOMAIN body = {}
    THEN /\ response' = [route |-> "POST /widgets", status |-> 400,
                         rejected |-> "input"]
         /\ result' = NoResult
    /\ UNCHANGED <<widgetTypes, widgets, nextTypeId, nextWidgetId, isInitialized, isClosed, inFlight, clientVars>>
    ELSE /\ ApplyWidgetCreate(body)
         /\ LET error == WidgetCreateOutcome(body).error IN
            response' = [route |-> "POST /widgets",
                         status |-> IF error = "none" THEN 201 ELSE PostErrorStatus(error),
                         rejected |-> IF error = "none" THEN "no" ELSE "input"]

\* PUT /widgets/:id with the given body
PutWidget(id, body) ==
    /\ ApplyWidgetUpdate(id, body)
    /\ LET error == WidgetUpdateOutcome(id, body).error IN
       response' = [route |-> "PUT /widgets/:id",
                    status |-> IF error = "none" THEN 200 ELSE PutErrorStatus(error),
                    rejected |-> IF error = "none" THEN "no"
                                 ELSE IF error = "NotFoundError" THEN "missing"
                                 ELSE "input"]

\* DELETE /widgets/:id
DeleteWidget(id) ==
    /\ ApplyWidgetRemove(id)
    /\ LET error == WidgetRemoveOutcome(id) IN
       response' = [route |-> "DELETE /widgets/:id",
                    status |-> IF error = "none" THEN 200 ELSE DeleteErrorStatus(error),
                    rejected |-> IF error = "none" THEN "no" ELSE "missing"]

\* GET /widgets/:id
GetWidget(id) ==
    /\ LET error == IF id \in DOMAIN widgets THEN "none" ELSE "NotFoundError" IN
       response' = [route |-> "GET /widgets/:id",
                    status |-> IF error = "none" THEN 200 ELSE GetErrorStatus(error),
                    rejected |-> IF error = "none" THEN "no" ELSE "missing"]
    /\ result' = NoResult
    /\ UNCHANGED <<widgetTypes, widgets, nextTypeId, nextWidgetId, isInitialized, isClosed, inFlight, clientVars>>

\* GET /widgets?finder=..&finderParams=..; finder "" and finderParams "" stand
\* for a query without that parameter. JSON.parse throws a SyntaxError on an
\* unparsable finderParams, inside the handler's try block.
GetWidgets(finder, finderParams) ==
    /\ LET error == IF finder # "" /\ finderParams # "" /\ finderParams \notin ParsableJson
                    THEN "SyntaxError"
                    ELSE "none"
       IN response' = [route |-> "GET /widgets",
                       status |-> IF error = "none" THEN 200 ELSE 500,
                       rejected |-> IF error = "none" THEN "no" ELSE "input"]
    /\ result' = NoResult
    /\ UNCHANGED <<widgetTypes, widgets, nextTypeId, nextWidgetId, isInitialized, isClosed, inFlight, clientVars>>

\* the errors Sequelize raises when the database fails under a query
DatabaseErrors == {"SequelizeConnectionError", "SequelizeDatabaseError"}

\* the widget endpoints and the library operation each one calls
Routes ==
    {"POST /widgets", "PUT /widgets/:id", "DELETE /widgets/:id",
     "GET /widgets/:id", "GET /widgets"}

RouteOperation(route) ==
    CASE route = "POST /widgets" -> "create"
      [] route = "PUT /widgets/:id" -> "update"
      [] route = "DELETE /widgets/:id" -> "remove"
      [] route = "GET /widgets/:id" -> "get"
      [] OTHER -> "find"

\* the errors a library operation hands to the handler when the database
\* fails under it: the Sequelize error, or for update and remove the
\* operation error of @fjell/lib (UpdateError 'Update Failed', RemoveError)
\* that carries it as its cause
LibraryFailure(op) ==
    DatabaseErrors \cup
    (CASE op = "update" -> {"UpdateError"}
       [] op = "remove" -> {"RemoveError"}
       [] OTHER -> {})

\* the status the catch block of the route's handler answers for the error
RouteErrorStatus(route, name) ==
    CASE route = "POST /widgets" -> PostErrorStatus(name)
      [] route = "PUT /widgets/:id" -> PutErrorStatus(name)
      [] route = "DELETE /widgets/:id" -> DeleteErrorStatus(name)
      [] route = "GET /widgets/:id" -> GetErrorStatus(name)
      [] OTHER -> 500

\* a request to a widget endpoint during which the database fails: the
\* library operation throws before any row is written and the handler's
\* catch block answers. The request is one that would not be rejected
\* otherwise: on /widgets/:id the id is the key of a stored Widget (id = 0
\* on the other routes).
FailingRequest(route, id, error) ==
    /\ error \in LibraryFailure(RouteOperation(route))
    /\ IF route \in {"PUT /widgets/:id", "DELETE /widgets/:id", "GET /widgets/:id"}
       THEN id \in DOMAIN widgets
       ELSE id = 0
    /\ response' = [route |-> route, status |-> RouteErrorStatus(route, error),
                    rejected |-> "fault"]
    /\ result' = [op |-> "fault", input |-> <<>>, key |-> id, error |-> error]
    /\ UNCHANGED <<widgetTypes, widgets, nextTypeId, nextWidgetId, isInitialized, isClosed, inFlight, clientVars>>

----------------------------------------------------------------------------
(* Database: the connection, table synchronization and seeding *)

\* seedTestData, the widget types handed to WidgetTypeModel.bulkCreate
SeedWidgetTypes ==
    <<
      [code |-> <<"B", "U", "T", "T", "O", "N">>,
       name |-> <<"B", "u", "t", "t", "o", "n", " ", "W", "i", "d", "g", "e", "t">>,
       isActive |-> TRUE],
      [code |-> <<"T", "E", "X", "T", "_", "I", "N", "P", "U", "T">>,
       name |-> <<"T", "e", "x", "t", " ", "I", "n", "p", "u", "t", " ", "W", "i", "d", "g", "e", "t">>,
       isActive |-> TRUE],
      [code |-> <<"C", "H", "A", "R", "T">>,
       name |-> <<"C", "h", "a", "r", "t", " ", "W", "i", "d", "g", "e", "t">>,
       isActive |-> TRUE],
      [code |-> <<"T", "A", "B", "L", "E">>,
       name |-> <<"T", "a", "b", "l", "e", " ", "W", "i", "d", "g", "e", "t">>,
       isActive |-> TRUE],
      [code |-> <<"L", "E", "G", "A", "C", "Y", "_", "W", "I", "D", "G", "E", "T">>,
       name |-> <<"L", "e", "g", "a", "c", "y", " ", "W", "i", "d", "g", "e", "t">>,
       isActive |-> FALSE]
    >>

\* seedTestData, the widgets handed to WidgetModel.bulkCreate; widgetType is
\* the position in SeedWidgetTypes of the type whose id the widget takes
SeedWidgets ==
    <<
      [widgetType |-> 1, isActive |-> TRUE,
       name |-> <<"P", "r", "i", "m", "a", "r", "y", " ", "A", "c", "t", "i", "o", "n", " ", "B", "u", "t", "t", "o", "n">>],
      [widgetType |-> 1, isActive |-> TRUE,
       name |-> <<"S", "e", "c", "o", "n", "d", "a", "r", "y", " ", "B", "u", "t", "t", "o", "n">>],
      [widgetType |-> 2, isActive |-> TRUE,
       name |-> <<"E", "m", "a", "i", "l", " ", "I", "n", "p", "u", "t", " ", "F", "i", "e", "l", "d">>],
      [widgetType |-> 2, isActive |-> TRUE,
       name |-> <<"S", "e", "a", "r", "c", "h", " ", "B", "o", "x">>],
      [widgetType |-> 3, isActive |-> TRUE,
       name |-> <<"S", "a", "l", "e", "s", " ", "D", "a", "s", "h", "b", "o", "a", "r", "d", " ", "C", "h", "a", "r", "t">>],
      [widgetType |-> 3, isActive |-> TRUE,
       name |-> <<"U", "s", "e", "r", " ", "A", "n", "a", "l", "y", "t", "i", "c", "s", " ", "P", "i", "e", " ", "C", "h", "a", "r", "t">>],
      [widgetType |-> 4, isActive |-> TRUE,
       name |-> <<"U", "s", "e", "r", " ", "M", "a", "n", "a", "g", "e", "m", "e", "n", "t", " ", "T", "a", "b", "l", "e">>],
      [widgetType |-> 4, isActive |-> TRUE,
       name |-> <<"O", "r", "d", "e", "r", "s", " ", "L", "i", "s", "t">>],
      [widgetType |-> 1, isActive |-> FALSE,
       name |-> <<"D", "i", "s", "a", "b", "l", "e", "d", " ", "T", "e", "s", "t", " ", "B", "u", "t", "t", "o", "n">>],
      [widgetType |-> 1, isActive |-> TRUE,
       name |-> <<"S", "i", "m", "p", "l", "e", " ", "B", "u", "t", "t", "o", "n">>],
      [widgetType |-> 2, isActive |-> TRUE,
       name |-> <<"B", "a", "s", "i", "c", " ", "I", "n", "p", "u", "t">>]
    >>

\* the tables and the key counters as one value
Tables ==
    [widgetTypes |-> widgetTypes, widgets |-> widgets,
     nextTypeId |-> nextTypeId, nextWidgetId |-> nextWidgetId]

\* a synchronization that never drops a table
syncKeepsTables(force) == Tables

\* sequelize.sync({ force }): with force both tables are dropped and created
\* again, without it the existing tables are kept. No key of a dropped row
\* is held anywhere, so the fresh keys are numbered from 1 again.
sync(force) ==
    IF force
    THEN [widgetTypes |-> <<>>, widgets |-> <<>>, nextTypeId |-> 1, nextWidgetId |-> 1]
    ELSE Tables

\* a shouldSeedData that is true as soon as one table is empty
shouldSeedDataAnyEmpty(tables, countFails) ==
    \/ countFails
    \/ Cardinality(DOMAIN tables.widgetTypes) = 0
    \/ Cardinality(DOMAIN tables.widgets) = 0

\* shouldSeedData: both counts are zero; a failing count query gives true
shouldSeedData(tables, countFails) ==
    \/ countFails
    \/ /\ Cardinality(DOMAIN tables.widgetTypes) = 0
       /\ Cardinality(DOMAIN tables.widgets) = 0

\* the widget_types table after WidgetTypeModel.bulkCreate(widgetTypes)
SeededWidgetTypes(tables) ==
    LET base == tables.nextTypeId - 1 IN
    [id \in DOMAIN tables.widgetTypes \cup (base + 1 .. base + Len(SeedWidgetTypes)) |->
        IF id \in DOMAIN tables.widgetTypes THEN tables.widgetTypes[id]
        ELSE SeedWidgetTypes[id - base]]

\* the widgets table after WidgetModel.bulkCreate(widgets)
SeededWidgets(tables) ==
    LET base == tables.nextWidgetId - 1
        typeBase == tables.nextTypeId - 1
    IN
    [id \in DOMAIN tables.widgets \cup (base + 1 .. base + Len(SeedWidgets)) |->
        IF id \in DOMAIN tables.widgets THEN tables.widgets[id]
        ELSE [widgetTypeId |-> typeBase + SeedWidgets[id - base].widgetType,
              name |-> SeedWidgets[id - base].name,
              isActive |-> SeedWidgets[id - base].isActive]]

\* seedTestData(models) on the given tables: the error it throws ("none":
\* it returns) and the tables it leaves. The two bulkCreate calls are
\* separate statements: failure "seedTypes" is the first one throwing,
\* "seedWidgets" the second one, after the widget types are inserted. The
\* first one also throws when a seed code is already in the table (unique
\* index on code).
seedTestData(tables, failure) ==
    LET clash == \E t \in DOMAIN tables.widgetTypes, i \in DOMAIN SeedWidgetTypes :
                     tables.widgetTypes[t].code = SeedWidgetTypes[i].code
        typed == [tables EXCEPT !.widgetTypes = SeededWidgetTypes(tables),
                                !.nextTypeId = @ + Len(SeedWidgetTypes)]
        done == [typed EXCEPT !.widgets = SeededWidgets(tables),
                              !.nextWidgetId = @ + Len(SeedWidgets)]
    IN
    IF failure = "seedTypes" THEN [error |-> "SequelizeDatabaseError", tables |-> tables]
    ELSE IF clash THEN [error |-> "SequelizeUniqueConstraintError", tables |-> tables]
    ELSE IF failure = "seedWidgets" THEN [error |-> "SequelizeDatabaseError", tables |-> typed]
    ELSE [error |-> "none", tables |-> done]

\* the points where an initialize call can fail
InitializeFailures ==
    {"none", "authenticate", "sync", "count", "seedTypes", "seedWidgets"}

\* an initialize that runs on a closed Database
initializeBranchIgnoresClosed(force) ==
    IF isInitialized /\ ~force THEN "return" ELSE "run"

\* an initialize that runs even when the Database is initialized
initializeBranchAlwaysRuns(force) ==
    IF isClosed THEN "throw" ELSE "run"

\* initialize(force), the two checks before the try block: "return" when
\* already initialized and not forced, "throw" when closed, else "run"
initializeBranch(force) ==
    IF isInitialized /\ ~force THEN "return"
    ELSE IF isClosed THEN "throw"
    ELSE "run"

\* initialize(force), the try block: authenticate, sync, then seed when
\* forced or when shouldSeedData says so. The error rethrown ("none": the
\* block completes) and the tables left behind.
initializeRun(force, failure) ==
    IF failure = "authenticate"
    THEN [error |-> "SequelizeConnectionError", tables |-> Tables]
    ELSE IF failure = "sync"
    THEN [error |-> "SequelizeDatabaseError", tables |-> Tables]
    ELSE LET synced == sync(force) IN
         IF force \/ shouldSeedData(synced, failure = "count")
         THEN seedTestData(synced, failure)
         ELSE [error |-> "none", tables |-> synced]

\* Database.initialize(force); the result keeps the number of rows the two
\* tables held when the call was made
Initialize(force, failure) ==
    LET branch == initializeBranch(force)
        run == initializeRun(force, failure)
        error == CASE branch = "return" -> "none"
                   [] branch = "throw" -> "Database is closed and cannot be initialized"
                   [] OTHER -> run.error
        after == IF branch = "run" THEN run.tables ELSE Tables
    IN
    /\ widgetTypes' = after.widgetTypes
    /\ widgets' = after.widgets
    /\ nextTypeId' = after.nextTypeId
    /\ nextWidgetId' = after.nextWidgetId
    /\ isInitialized' = IF branch = "run" /\ error = "none" THEN TRUE ELSE isInitialized
    /\ result' = [op |-> "initialize", input |-> [force |-> force],
                  key |-> 0, error |-> error,
                  rows |-> Cardinality(DOMAIN widgetTypes) + Cardinality(DOMAIN widgets)]
    /\ response' = NoResponse
    /\ UNCHANGED <<isClosed, inFlight, clientVars>>

\* a close that rethrows the error of sequelize.close()
closeRejectionRethrown(closeFails) ==
    IF closeFails THEN "Close operation failed" ELSE "none"

\* close(), the catch block: the error of sequelize.close() is logged and
\* not rethrown, so close() rejects with nothing
closeRejection(closeFails) == "none"

\* flags after a close that leaves isInitialized as it is
ClosedFlagsKeepInitialized ==
    [isClosed |-> TRUE, isInitialized |-> isInitialized]

\* close(), the flags set once sequelize.close() has returned
ClosedFlags == [isClosed |-> TRUE, isInitialized |-> FALSE]

\* Database.close(); closeFails: sequelize.close() throws
Close(closeFails) ==
    /\ IF isClosed \/ closeFails
       THEN UNCHANGED <<isInitialized, isClosed>>
       ELSE /\ isClosed' = ClosedFlags.isClosed
            /\ isInitialized' = ClosedFlags.isInitialized
    /\ result' = [op |-> "close", input |-> [closeFails |-> ~isClosed /\ closeFails],
                  key |-> 0, error |-> IF isClosed THEN "none" ELSE closeRejection(closeFails)]
    /\ response' = NoResponse
    /\ UNCHANGED <<widgetTypes, widgets, nextTypeId, nextWidgetId, inFlight, clientVars>>

\* what sequelize.authenticate() can throw in healthCheck: nothing, an Error
\* with a message, or a value that is not an Error
AuthenticateOutcomes == {"none", "Authentication failed", "not an Error"}

\* a healthCheck that authenticates on a closed Database too
healthCheckIgnoresClosed(thrown) ==
    IF thrown = "none" THEN [status |-> "healthy", details |-> ""]
    ELSE [status |-> "unhealthy",
          details |-> IF thrown = "not an Error" THEN "Unknown error" ELSE thrown]

\* Database.healthCheck(): the value it resolves with
healthCheck(thrown) ==
    IF isClosed
    THEN [status |-> "unhealthy", details |-> "Database connection is closed"]
    ELSE IF thrown = "none" THEN [status |-> "healthy", details |-> ""]
    ELSE [status |-> "unhealthy",
          details |-> IF thrown = "not an Error" THEN "Unknown error" ELSE thrown]

\* a call of Database.healthCheck()
HealthCheck(thrown) ==
    /\ result' = [op |-> "healthCheck",
                  input |-> [thrown |-> IF isClosed THEN "none" ELSE thrown],
                  key |-> 0, error |-> "none", value |-> healthCheck(thrown)]
    /\ response' = NoResponse
    /\ UNCHANGED <<widgetTypes, widgets, nextTypeId, nextWidgetId, isInitialized, isClosed, inFlight, clientVars>>

\* getModels().WidgetTypeModel.create(row) on a Database that is not closed
\* (initialized, or only synchronized)
ModelCreateWidgetType(row) ==
    LET error == WidgetTypeModelError(row, 0) IN
    /\ ~isClosed
    /\ Cardinality(DOMAIN widgetTypes) < Len(SeedWidgetTypes) + MaxAdded
    /\ IF error = "none"
       THEN /\ widgetTypes' = Put(widgetTypes, nextTypeId, row)
            /\ nextTypeId' = nextTypeId + 1
       ELSE UNCHANGED <<widgetTypes, nextTypeId>>
    /\ result' = [op |-> "WidgetTypeModel.create", input |-> row,
                  key |-> IF error = "none" THEN nextTypeId ELSE 0, error |-> error]
    /\ response' = NoResponse
    /\ UNCHANGED <<widgets, nextWidgetId, isInitialized, isClosed, inFlight, clientVars>>

\* getModels().WidgetModel.create(row) on a Database that is not closed
ModelCreateWidget(row) ==
    LET error == WidgetModelError(row) IN
    /\ ~isClosed
    /\ Cardinality(DOMAIN widgets) < Len(SeedWidgets) + MaxAdded
    /\ IF error = "none"
       THEN /\ widgets' = Put(widgets, nextWidgetId, row)
            /\ nextWidgetId' = nextWidgetId + 1
       ELSE UNCHANGED <<widgets, nextWidgetId>>
    /\ result' = [op |-> "WidgetModel.create", input |-> row,
                  key |-> IF error = "none" THEN nextWidgetId ELSE 0, error |-> error]
    /\ response' = NoResponse
    /\ UNCHANGED <<widgetTypes, nextTypeId, isInitialized, isClosed, inFlight, clientVars>>

----------------------------------------------------------------------------
(* Browser client: WidgetContextProvider and the ClientCache accessors *)

\* the keys of a table, the last key handed out being last, in the order
\* the API lists its rows
Ascending(ids, last) == SelectSeq([i \in 1..last |-> i], LAMBDA i : i \in ids)

\* what a call on a cache can reject with: nothing, an Error with a message,
\* or a value that is not an Error
CacheOutcomes == {"none", "Network error", "not an Error"}

\* the slot a new pending call takes
FreeSlot == CHOOSE c \in (1..MaxCalls) \ DOMAIN calls :
                \A d \in (1..MaxCalls) \ DOMAIN calls : c <= d

\* the pending calls once call c has settled
Settled(c) == [d \in DOMAIN calls \ {c} |-> calls[d]]

\* loadData, the catch block: err instanceof Error ? err.message : 'Unknown error'
LoadErrorMessage(thrown) ==
    IF thrown = "not an Error" THEN "Unknown error" ELSE thrown

\* loadData, catch and finally when an awaited call rejected
LoadFailed(thrown) ==
    [provider EXCEPT !.error = LoadErrorMessage(thrown), !.loading = FALSE]

\* loadData up to its first await: loading is set, the error is cleared and
\* widgetCache.operations.all() is pending
loadData ==
    /\ DOMAIN calls # 1..MaxCalls
    /\ provider' = [provider EXCEPT !.loading = TRUE, !.error = "null"]
    /\ calls' = Put(calls, FreeSlot, [op |-> "loadData", pc |-> "widgets",
                                      widgetData |-> <<>>])
    /\ UNCHANGED <<widgetTypes, widgets, nextTypeId, nextWidgetId, result, response,
                   isInitialized, isClosed, inFlight, _widgetCache>>

\* loadData, widgetCache.operations.all() settles: its rows are kept in
\* widgetData and widgetTypeCache.operations.all() is awaited next, or the
\* rejection ends the load in catch and finally
WidgetsLoaded(c, thrown) ==
    /\ c \in DOMAIN calls
    /\ calls[c].op = "loadData"
    /\ calls[c].pc = "widgets"
    /\ IF thrown = "none"
       THEN /\ calls' = [calls EXCEPT ![c] = [op |-> "loadData", pc |-> "widgetTypes",
                                             widgetData |-> Ascending(DOMAIN widgets, nextWidgetId - 1)]]
            /\ UNCHANGED <<provider, result>>
       ELSE /\ calls' = Settled(c)
            /\ provider' = LoadFailed(thrown)
            /\ result' = [op |-> "loadData", input |-> <<>>, key |-> 0,
                          error |-> LoadErrorMessage(thrown)]
    /\ UNCHANGED <<widgetTypes, widgets, nextTypeId, nextWidgetId, response,
                   isInitialized, isClosed, inFlight, _widgetCache>>

\* loadData, widgetTypeCache.operations.all() settles: both lists are set
\* from what the two calls returned, or the rejection is caught; finally
\* clears loading
WidgetTypesLoaded(c, thrown) ==
    /\ c \in DOMAIN calls
    /\ calls[c].op = "loadData"
    /\ calls[c].pc = "widgetTypes"
    /\ calls' = Settled(c)
    /\ provider' = IF thrown = "none"
                   THEN [provider EXCEPT !.widgets = calls[c].widgetData,
                                         !.widgetTypes = Ascending(DOMAIN widgetTypes, nextTypeId - 1),
                                         !.loading = FALSE]
                   ELSE LoadFailed(thrown)
    /\ result' = [op |-> "loadData", input |-> <<>>, key |-> 0,
                  error |-> LoadErrorMessage(thrown)]
    /\ UNCHANGED <<widgetTypes, widgets, nextTypeId, nextWidgetId, response,
                   isInitialized, isClosed, inFlight, _widgetCache>>

\* a deleteWidget that drops the widget from the list whether or not the
\* cache removed it
deleteWidgetOptimistic(list, id, thrown) ==
    [widgets |-> SelectSeq(list, LAMBDA w : w # id), thrown |-> thrown]

\* deleteWidget once widgetCache.operations.remove() has settled: the list
\* it sets and the error it rethrows ("none": it resolves)
deleteWidgetOutcome(list, id, thrown) ==
    IF thrown = "none"
    THEN [widgets |-> SelectSeq(list, LAMBDA w : w # id), thrown |-> "none"]
    ELSE [widgets |-> list, thrown |-> thrown]

\* deleteWidget(id) up to its await: widgetCache.operations.remove() is pending
deleteWidget(id) ==
    /\ DOMAIN calls # 1..MaxCalls
    /\ calls' = Put(calls, FreeSlot, [op |-> "deleteWidget", id |-> id])
    /\ UNCHANGED <<widgetTypes, widgets, nextTypeId, nextWidgetId, result, response,
                   isInitialized, isClosed, inFlight, provider, _widgetCache>>

\* deleteWidget(id), the remove settles: the API has deleted the row and
\* the list is filtered, or the remove rejected (a failed request, or no
\* such row) and the error is rethrown
WidgetRemoved(c, failure) ==
    /\ c \in DOMAIN calls
    /\ calls[c].op = "deleteWidget"
    /\ LET id == calls[c].id
           thrown == IF failure # "none" THEN failure
                     ELSE IF WidgetRemoveOutcome(id) # "none" THEN "Widget not found"
                     ELSE "none"
           out == deleteWidgetOutcome(provider.widgets, id, thrown)
       IN
       /\ widgets' = IF thrown = "none" THEN Without(widgets, id) ELSE widgets
       /\ provider' = [provider EXCEPT !.widgets = out.widgets]
       /\ result' = [op |-> "deleteWidget", input |-> <<>>, key |-> id,
                     error |-> out.thrown]
    /\ calls' = Settled(c)
    /\ UNCHANGED <<widgetTypes, nextTypeId, nextWidgetId, response,
                   isInitialized, isClosed, inFlight, _widgetCache>>

\* createWidget(widget) up to its await: widgetCache.operations.create() is pending
createWidget(item) ==
    /\ DOMAIN calls # 1..MaxCalls
    /\ calls' = Put(calls, FreeSlot, [op |-> "createWidget", item |-> item])
    /\ UNCHANGED <<widgetTypes, widgets, nextTypeId, nextWidgetId, result, response,
                   isInitialized, isClosed, inFlight, provider, _widgetCache>>

\* createWidget(widget), the create settles: the API has stored the Widget
\* and it is appended to the list, or the error is rethrown
WidgetCreated(c, failure) ==
    /\ c \in DOMAIN calls
    /\ calls[c].op = "createWidget"
    /\ LET out == WidgetCreateOutcome(calls[c].item)
           thrown == IF failure # "none" THEN failure ELSE out.error
       IN
       /\ thrown = "none" => nextWidgetId <= Len(SeedWidgets) + MaxAdded
       /\ IF thrown = "none"
          THEN /\ widgets' = Put(widgets, nextWidgetId, out.row)
               /\ nextWidgetId' = nextWidgetId + 1
               /\ provider' = [provider EXCEPT !.widgets = Append(@, nextWidgetId)]
          ELSE UNCHANGED <<widgets, nextWidgetId, provider>>
       /\ result' = [op |-> "createWidget", input |-> calls[c].item,
                     key |-> IF thrown = "none" THEN nextWidgetId ELSE 0,
                     error |-> thrown]
    /\ calls' = Settled(c)
    /\ UNCHANGED <<widgetTypes, nextTypeId, response, isInitialized, isClosed,
                   inFlight, _widgetCache>>

\* an import that does not give every call the same cache
importedWidgetCachePerCall(c) ==
    IF c = 1 THEN "widgetCache" ELSE "another widgetCache"

\* what import('./WidgetCache') gives call c: the module is evaluated once,
\* every import gives its one exported widgetCache
importedWidgetCache(c) == "widgetCache"

\* getWidgetCache() up to its await, or to its end when nothing is awaited:
\* the cache set before is returned, outside a browser the call throws, and
\* otherwise the import is pending
getWidgetCache(browser) ==
    /\ IF _widgetCache # "null"
       THEN /\ result' = [op |-> "getWidgetCache", input |-> <<>>, key |-> 0,
                          error |-> "none", value |-> _widgetCache]
            /\ UNCHANGED calls
       ELSE IF ~browser
       THEN /\ result' = [op |-> "getWidgetCache", input |-> <<>>, key |-> 0,
                          error |-> "Widget cache can only be accessed in browser environment",
                          value |-> "null"]
            /\ UNCHANGED calls
       ELSE /\ DOMAIN calls # 1..MaxCalls
            /\ calls' = Put(calls, FreeSlot, [op |-> "getWidgetCache"])
            /\ UNCHANGED result
    /\ UNCHANGED <<widgetTypes, widgets, nextTypeId, nextWidgetId, response,
                   isInitialized, isClosed, inFlight, provider, _widgetCache>>

\* getWidgetCache(), the import settles: _widgetCache is set and returned,
\* or the import's rejection is the call's
WidgetCacheImported(c, thrown) ==
    /\ c \in DOMAIN calls
    /\ calls[c].op = "getWidgetCache"
    /\ calls' = Settled(c)
    /\ _widgetCache' = IF thrown = "none" THEN importedWidgetCache(c) ELSE _widgetCache
    /\ result' = [op |-> "getWidgetCache", input |-> <<>>, key |-> c,
                  error |-> thrown,
                  value |-> IF thrown = "none" THEN importedWidgetCache(c) ELSE "null"]
    /\ UNCHANGED <<widgetTypes, widgets, nextTypeId, nextWidgetId, response,
                   isInitialized, isClosed, inFlight, provider>>

\* getWidgetCacheSync()
getWidgetCacheSync ==
    /\ result' = [op |-> "getWidgetCacheSync", input |-> <<>>, key |-> 0,
                  error |-> IF _widgetCache = "null"
                            THEN "Widget cache not yet initialized. Call getWidgetCache() first."
                            ELSE "none",
                  value |-> _widgetCache]
    /\ UNCHANGED <<widgetTypes, widgets, nextTypeId, nextWidgetId, response,
                   isInitialized, isClosed, inFlight, provider, calls, _widgetCache>>

----------------------------------------------------------------------------
(* Inputs *)

\* all strings over the alphabet of length n
RECURSIVE StringsOfLen(_)
StringsOfLen(n) ==
    IF n = 0 THEN {<<>>}
    ELSE {<<c>> \o s : c \in Alphabet, s \in StringsOfLen(n - 1)}

ShortStrings == UNION {StringsOfLen(n) : n \in 0..MaxShortLen}

\* codes: every short string, one string of each format the hooks tell
\* apart, and strings around the length limit
CodeInputs ==
    ShortStrings \cup
    {<<"a", "_">>, <<"A", "_">>, <<"a", "A">>, <<"A", "1">>, <<"_", "_">>,
     <<" ", "A">>, <<" ", "a", "_", " ">>, <<"A", " ", "A">>, <<"a", "_", "A">>,
     Repeat("A", MaxCodeLen), Repeat("A", MaxCodeLen + 1),
     <<" ">> \o Repeat("A", MaxCodeLen) \o <<" ">>,
     <<"a", "_">> \o Repeat("a", MaxCodeLen - 2),
     <<"a", "_">> \o Repeat("a", MaxCodeLen - 1)}

\* names: empty, blank, padded, and strings around the length limit
NameInputs ==
    {<<>>, <<" ">>, <<"a">>, <<" ", "a", " ">>,
     Repeat("a", MaxNameLen), Repeat("a", MaxNameLen + 1),
     <<" ">> \o Repeat("a", MaxNameLen)}

\* WidgetType create payloads of the validation specification
TypeItems ==
    {[code |-> c, name |-> <<"a">>] : c \in CodeInputs}
    \cup {[code |-> <<"A">>, name |-> n] : n \in NameInputs}
    \cup {[name |-> <<"a">>], [code |-> <<"A">>]}

\* WidgetType update payloads of the validation specification
TypeUpdates ==
    {[code |-> c] : c \in CodeInputs} \cup {[name |-> n] : n \in NameInputs}

\* WidgetType create payloads of the relational specification
FewTypeItems ==
    {[code |-> c, name |-> <<"a">>] : c \in {<<"A">>, <<"a", "_">>, <<"a">>}}

\* WidgetType update payloads of the relational specification
FewTypeUpdates ==
    {[isActive |-> b] : b \in BOOLEAN} \cup {[code |-> <<"a", "_">>]}

\* Widget create payloads
WidgetItems ==
    {[widgetTypeId |-> t, name |-> n] : t \in 1..MaxTypes,
                                         n \in {<<"a">>, <<" ", "a", " ">>}}
    \cup {[widgetTypeId |-> 1, name |-> <<>>], [name |-> <<"a">>],
          [widgetTypeId |-> 1, name |-> Repeat("a", MaxNameLen + 1)]}

\* Widget update payloads
WidgetUpdates ==
    {[name |-> n] : n \in {<<" ", "a", " ">>, <<>>}}
    \cup {[widgetTypeId |-> t] : t \in 1..MaxTypes}

\* Widget create payloads of the browser client
ClientWidgetItems ==
    {[widgetTypeId |-> 1, name |-> <<"a">>], [widgetTypeId |-> 1, name |-> <<>>]}

\* rows written through the models of a Database
AddedWidgetTypes ==
    {[code |-> <<"F", "O", "R", "C", "E", "_", "T", "E", "S", "T">>,
      name |-> <<"F", "o", "r", "c", "e", " ", "T", "e", "s", "t", " ", "T", "y", "p", "e">>, isActive |-> TRUE],
     [code |-> <<"B", "U", "T", "T", "O", "N">>, name |-> <<"a">>, isActive |-> TRUE]}

AddedWidgets ==
    {[widgetTypeId |-> t, name |-> <<"a">>, isActive |-> TRUE] : t \in {0, 1}}

----------------------------------------------------------------------------
(* Specifications *)

\* freshly synchronized, empty tables
Init ==
    /\ widgetTypes = <<>>
    /\ widgets = <<>>
    /\ nextTypeId = 1
    /\ nextWidgetId = 1
    /\ result = NoResult
    /\ response = NoResponse
    /\ isInitialized = FALSE
    /\ isClosed = FALSE
    /\ inFlight = {}
    /\ provider = [widgets |-> <<>>, widgetTypes |-> <<>>, loading |-> TRUE, error |-> "null"]
    /\ calls = <<>>
    /\ _widgetCache = "null"

Next ==
    \/ \E item \in FewTypeItems : CreateWidgetType(item)
    \/ \E id \in 1..MaxTypes, updates \in FewTypeUpdates : UpdateWidgetType(id, updates)
    \/ \E id \in 1..MaxTypes : RemoveWidgetType(id)
    \/ \E id \in 1..MaxTypes : GetWidgetType(id)
    \/ \E body \in WidgetItems \cup {<<>>} : PostWidget(body)
    \/ \E id \in 1..MaxWidgets, body \in WidgetUpdates : PutWidget(id, body)
    \/ \E id \in 1..MaxWidgets : DeleteWidget(id)
    \/ \E id \in 1..MaxWidgets : GetWidget(id)
    \/ \E finder \in Finders \cup {""}, finderParams \in ParsableJson \cup {"", "{bad"} :
          GetWidgets(finder, finderParams)
    \/ \E route \in Routes, id \in 0..MaxWidgets,
          error \in DatabaseErrors \cup {"UpdateError", "RemoveError"} :
          FailingRequest(route, id, error)

Spec == Init /\ [][Next]_vars

\* the WidgetType library over every code and name input, on one widget
\* type: creates until one is accepted, then updates of it
NextValidation ==
    \/ \E item \in TypeItems :
          /\ widgetTypes = <<>> \/ WidgetTypeCreateCheck(item) # "none"
          /\ CreateWidgetType(item)
    \/ \E updates \in TypeUpdates : UpdateWidgetType(nextTypeId - 1, updates)

SpecValidation == Init /\ [][NextValidation]_vars

\* requests served concurrently: a Widget create is validated and inserted
\* in two steps, and requests on widget types are served between them
NextConcurrent ==
    \/ \E item \in FewTypeItems : CreateWidgetType(item)
    \/ \E id \in 1..MaxTypes, updates \in FewTypeUpdates : UpdateWidgetType(id, updates)
    \/ \E id \in 1..MaxTypes : RemoveWidgetType(id)
    \/ \E item \in WidgetItems : ValidateWidgetCreate(item)
    \/ \E item \in WidgetItems : InsertWidget(item)

SpecConcurrent == Init /\ [][NextConcurrent]_vars

\* the browser client over a server whose Database was initialized on
\* empty storage, so that both tables hold the seed rows
InitClient ==
    LET seeded == seedTestData([widgetTypes |-> <<>>, widgets |-> <<>>,
                                nextTypeId |-> 1, nextWidgetId |-> 1], "none").tables
    IN
    /\ widgetTypes = seeded.widgetTypes
    /\ widgets = seeded.widgets
    /\ nextTypeId = seeded.nextTypeId
    /\ nextWidgetId = seeded.nextWidgetId
    /\ result = NoResult
    /\ response = NoResponse
    /\ isInitialized = TRUE
    /\ isClosed = FALSE
    /\ inFlight = {}
    /\ provider = [widgets |-> <<>>, widgetTypes |-> <<>>, loading |-> TRUE, error |-> "null"]
    /\ calls = <<>>
    /\ _widgetCache = "null"

\* the provider's mount effect and refresh (loadData), its deleteWidget and
\* createWidget, the ClientCache accessors, and the settling of their
\* awaited calls in any order
NextClient ==
    \/ loadData
    \/ \E c \in 1..MaxCalls, thrown \in CacheOutcomes : WidgetsLoaded(c, thrown)
    \/ \E c \in 1..MaxCalls, thrown \in CacheOutcomes : WidgetTypesLoaded(c, thrown)
    \/ \E id \in 1..MaxDeleted : deleteWidget(id)
    \/ \E c \in 1..MaxCalls, failure \in {"none", "Network error"} : WidgetRemoved(c, failure)
    \/ \E item \in ClientWidgetItems : createWidget(item)
    \/ \E c \in 1..MaxCalls, failure \in {"none", "Network error"} : WidgetCreated(c, failure)
    \/ \E browser \in BOOLEAN : getWidgetCache(browser)
    \/ \E c \in 1..MaxCalls, thrown \in {"none", "Failed to fetch dynamically imported module"} :
          WidgetCacheImported(c, thrown)
    \/ getWidgetCacheSync

SpecClient == InitClient /\ [][NextClient]_vars

\* every awaited call settles: the promise of a cache call or of an import
\* is resolved or rejected by the event loop
SpecClientFair ==
    /\ SpecClient
    /\ \A c \in 1..MaxCalls :
          /\ WF_vars(\E thrown \in CacheOutcomes : WidgetsLoaded(c, thrown))
          /\ WF_vars(\E thrown \in CacheOutcomes : WidgetTypesLoaded(c, thrown))

\* the Database object: a new Database over empty storage, the calls made
\* on it and the rows written through its models
NextDatabase ==
    \/ \E force \in BOOLEAN, failure \in InitializeFailures : Initialize(force, failure)
    \/ \E closeFails \in BOOLEAN : Close(closeFails)
    \/ \E thrown \in AuthenticateOutcomes : HealthCheck(thrown)
    \/ \E row \in AddedWidgetTypes : ModelCreateWidgetType(row)
    \/ \E row \in AddedWidgets : ModelCreateWidget(row)

SpecDatabase == Init /\ [][NextDatabase]_vars

----------------------------------------------------------------------------
(* Properties *)

\* the widget type a Widget create payload names is stored and active
NamesActiveType(item) ==
    /\ Has(item, "widgetTypeId")
    /\ item.widgetTypeId \in DOMAIN widgetTypes
    /\ widgetTypes[item.widgetTypeId].isActive

\* C1: a Widget create stores a Widget only if the widget type it names is
\* stored and active when the create runs; if that widget type is absent or
\* inactive, the create ends in a validation error and the widgets table is
\* left as it was.
C1_CreateNeedsActiveType ==
    [][result'.op = "createWidget" =>
          /\ result'.error = "none" => NamesActiveType(result'.input)
          /\ ~NamesActiveType(result'.input) =>
                /\ result'.error = "CreateValidationError"
                /\ widgets' = widgets]_vars

\* C1 witness: a create naming a stored, inactive widget type was rejected
C1_Witness ==
    /\ result.op = "createWidget"
    /\ result.error = "CreateValidationError"
    /\ Has(result.input, "widgetTypeId")
    /\ Has(result.input, "name") /\ result.input.name = <<"a">>
    /\ result.input.widgetTypeId \in DOMAIN widgetTypes
    /\ ~widgetTypes[result.input.widgetTypeId].isActive

\* a code written in lower case: after trimming, lower-case letters and
\* underscores only, at least one letter, within the length limit
LowerCaseCode(code) ==
    LET t == trim(code) IN
    /\ Len(t) >= 1 /\ Len(t) <= MaxCodeLen
    /\ \A i \in 1..Len(t) : t[i] \in LowerCase \cup {"_"}
    /\ \E i \in 1..Len(t) : t[i] \in LowerCase

\* the last operation was a WidgetType create with a lower-case code and a
\* valid name
LowerCaseCreate ==
    /\ result.op = "createWidgetType"
    /\ Has(result.input, "code") /\ LowerCaseCode(result.input.code)
    /\ Has(result.input, "name") /\ result.input.name = <<"a">>

\* C2 as stated: every create with a lower-case code passes the hooks and
\* validators and stores the code trimmed and upper-cased.
C2_Original ==
    LowerCaseCreate =>
        /\ result.error \notin {"HookError", "CreateValidationError"}
        /\ result.error = "none" =>
              widgetTypes[result.key].code = toUpperCase(trim(result.input.code))

\* C2 amended: a create with a lower-case code that holds an underscore
\* passes the hooks and validators and stores the code trimmed and
\* upper-cased; a create whose code is lower-case letters only is rejected
\* by the preCreate hook.
C2_LowerCaseWithUnderscoreNormalized ==
    LowerCaseCreate =>
        IF \E i \in 1..Len(result.input.code) : result.input.code[i] = "_"
        THEN /\ result.error \notin {"HookError", "CreateValidationError"}
             /\ result.error = "none" =>
                   widgetTypes[result.key].code = toUpperCase(trim(result.input.code))
        ELSE result.error = "HookError"

\* C2 witness: a lower-case code with an underscore and padding was stored
C2_Witness ==
    /\ LowerCaseCreate
    /\ result.error = "none"
    /\ result.input.code = <<" ", "a", "_", " ">>
    /\ widgetTypes[result.key].code = <<"A", "_">>

\* the trimmed code holds a character that is no letter and no underscore,
\* or holds letters of both cases
BadCodeFormat(code) ==
    LET t == trim(code) IN
    \/ \E i \in 1..Len(t) : t[i] \notin LowerCase \cup UpperCase \cup {"_"}
    \/ /\ \E i \in 1..Len(t) : t[i] \in UpperCase
       /\ \E i \in 1..Len(t) : t[i] \in LowerCase

\* C3: a WidgetType create whose trimmed code holds a character other than
\* a letter or an underscore, or letters of both cases, is rejected and
\* leaves the widget_types table as it was.
C3_BadCodeRejected ==
    [][(/\ result'.op = "createWidgetType"
        /\ Has(result'.input, "code")
        /\ BadCodeFormat(result'.input.code)) =>
          /\ result'.error # "none"
          /\ widgetTypes' = widgetTypes]_vars

\* C3 witness: a create with a mixed-case code was rejected by the hook
C3_Witness ==
    /\ result.op = "createWidgetType"
    /\ result.input = [code |-> <<"a", "_", "A">>, name |-> <<"a">>]
    /\ result.error = "HookError"

\* C4: every stored code is 1 to 50 characters long, made of upper-case
\* letters and underscores, with no whitespace at either end.
C4_StoredCodesWellFormed ==
    \A t \in DOMAIN widgetTypes :
        LET code == widgetTypes[t].code IN
        /\ Len(code) >= 1 /\ Len(code) <= MaxCodeLen
        /\ \A i \in 1..Len(code) : code[i] \in UpperCase \cup {"_"}
        /\ trim(code) = code

\* C4 witness: an update stored a code of the maximal length, given padded
\* and in lower case
C4_Witness ==
    /\ result.op = "updateWidgetType"
    /\ result.error = "none"
    /\ Has(result.input, "code")
    /\ result.input.code # widgetTypes[result.key].code
    /\ Len(widgetTypes[result.key].code) = MaxCodeLen

\* C5: no two stored widget types hold the same code, and a create or
\* update whose normalized code is the code of another stored widget type
\* fails and leaves the table as it was.
C5_CodesUnique ==
    [][/\ \A t1, t2 \in DOMAIN widgetTypes' :
             t1 # t2 => widgetTypes'[t1].code # widgetTypes'[t2].code
       /\ (/\ result'.op \in {"createWidgetType", "updateWidgetType"}
           /\ Truthy(result'.input, "code")
           /\ \E t \in DOMAIN widgetTypes :
                 /\ result'.op = "updateWidgetType" => t # result'.key
                 /\ widgetTypes[t].code = toUpperCase(trim(result'.input.code))) =>
             /\ result'.error # "none"
             /\ widgetTypes' = widgetTypes]_vars

\* C5 witness: an update to the code of another stored widget type failed
\* on the unique index
C5_Witness ==
    /\ result.op = "updateWidgetType"
    /\ result.error = "SequelizeUniqueConstraintError"
    /\ Cardinality(DOMAIN widgetTypes) = 2

\* the create payload that supplies the value an update payload supplies,
\* next to a valid value of the other required field
CreateWithSameValue(updates) ==
    IF Has(updates, "code")
    THEN [code |-> updates.code, name |-> <<"a">>]
    ELSE [code |-> <<"A">>, name |-> updates.name]

\* the field an update payload of the validation specification supplies
SuppliedField(updates) == IF Has(updates, "code") THEN "code" ELSE "name"

C7_RemoveTypeKeepsWidgets ==
    [][(result'.op = "removeWidgetType" /\ result'.error = "none") =>
          widgets' = widgets]_vars

\* C8: every stored widget's widgetTypeId is the id of a stored widget type.
C8_NoDanglingReference ==
    \A w \in DOMAIN widgets : widgets[w].widgetTypeId \in DOMAIN widgetTypes

\* C8 witness: a widget type was removed while another one held a widget
C8_Witness ==
    /\ result.op = "removeWidgetType"
    /\ result.error = "none"
    /\ widgets # <<>>

C10_RejectedInputIs400 ==
    response.rejected = "input" => response.status = 400

\* a GET, PUT or DELETE request on /widgets/:id
RequestOnWidget(id) ==
    \/ GetWidget(id)
    \/ DeleteWidget(id)
    \/ \E body \in WidgetUpdates : PutWidget(id, body)

\* C11: a GET, PUT or DELETE request on /widgets/:id whose id is the key of
\* no stored Widget is answered with status 404 and leaves the widgets table
\* as it was.
C11_MissingWidgetIs404 ==
    [][\A id \in 1..MaxWidgets :
          (id \notin DOMAIN widgets /\ RequestOnWidget(id)) =>
              (response'.status = 404 /\ widgets' = widgets)]_vars

\* C11 witness: a PUT on a key that no stored Widget has was answered 404
C11_Witness ==
    /\ response.route = "PUT /widgets/:id"
    /\ response.rejected = "missing"
    /\ response.status = 404
    /\ result.key \notin DOMAIN widgets

\* C12 as stated: a request that failed for a reason other than its input or
\* a missing record (the database failed under the library operation) is
\* answered with status 500.
C12_UnexpectedFailureIs500 ==
    response.rejected = "fault" => response.status = 500

C14_CreateTrimsName ==
    (result.op = "createWidget" /\ result.error = "none") =>
        /\ result.key \in DOMAIN widgets
        /\ widgets[result.key].name = trim(result.input.name)
        /\ widgets[result.key].name # <<>>
        /\ Head(widgets[result.key].name) \notin WhiteSpace
        /\ widgets[result.key].name[Len(widgets[result.key].name)] \notin WhiteSpace

\* C14 witness: a Widget created with a name padded with blanks is stored
\* under the name without them
C14_Witness ==
    /\ result.op = "createWidget"
    /\ result.error = "none"
    /\ result.input.name = <<" ", "a", " ">>
    /\ widgets[result.key].name = <<"a">>

\* the last operation was a WidgetType create or update that supplied a name
SuppliedName(r) ==
    /\ r.op \in {"createWidgetType", "updateWidgetType"}
    /\ Has(r.input, "name")

\* the code the operation supplied passes the hooks and validators (an
\* update need not supply one)
SuppliedCodeAccepted(r) ==
    IF Has(r.input, "code")
    THEN WidgetTypeCreateCheck([code |-> r.input.code, name |-> <<"a">>]) = "none"
    ELSE r.op = "updateWidgetType"

ClosedMessage == "Database is closed and cannot be initialized"

\* C16: closed is a terminal state of a Database object. Once isClosed is
\* true it stays true, isInitialized stays false, and every initialize call,
\* forced or not, rejects with 'Database is closed and cannot be
\* initialized'.
C16_ClosedIsTerminal ==
    [][isClosed =>
          /\ isClosed'
          /\ ~isInitialized'
          /\ \A force \in BOOLEAN, failure \in InitializeFailures :
                Initialize(force, failure) => result'.error = ClosedMessage]_vars

\* C16 witness: a forced initialize on a closed Database was rejected
C16_Witness ==
    /\ isClosed
    /\ result.op = "initialize"
    /\ result.input.force
    /\ result.error = ClosedMessage

\* C17: initialize() without force on an initialized Database returns
\* without authenticating, synchronizing or seeding (it succeeds even when
\* one of them would fail) and leaves the tables and the flags as they were.
C17_InitializeTwiceIsNoOp ==
    [][\A failure \in InitializeFailures :
          (isInitialized /\ Initialize(FALSE, failure)) =>
              /\ result'.error = "none"
              /\ UNCHANGED <<widgetTypes, widgets, nextTypeId, nextWidgetId,
                             isInitialized, isClosed>>]_vars

\* C17 witness: a non-forced initialize returned on a Database that held a
\* row written after its initialization
C17_Witness ==
    /\ result.op = "initialize"
    /\ ~result.input.force
    /\ result.error = "none"
    /\ isInitialized
    /\ \E t \in DOMAIN widgetTypes : widgetTypes[t].code = <<"F", "O", "R", "C", "E", "_", "T", "E", "S", "T">>

\* C18: close() never rejects: not when the Database is already closed
\* (the call changes nothing), not when it was never initialized, and not
\* when sequelize.close() throws.
C18_CloseNeverRejects ==
    [][\A closeFails \in BOOLEAN :
          Close(closeFails) =>
              /\ result'.error = "none"
              /\ (isClosed => UNCHANGED <<widgetTypes, widgets, isInitialized, isClosed>>)]_vars

\* C18 witness: a close during which sequelize.close() threw has returned
C18_Witness ==
    /\ result.op = "close"
    /\ result.input.closeFails
    /\ result.error = "none"

\* C19: isInitialized and isClosed are never both true. A Database starts
\* at (false, false), an initialize that returns leaves (true, false), and
\* a close whose sequelize.close() returns leaves (false, true).
C19_FlagsExclusive ==
    /\ (~isInitialized /\ ~isClosed)
    /\ [](~(isInitialized /\ isClosed))
    /\ [][/\ ((result'.op = "initialize" /\ result'.error = "none") =>
                 (isInitialized' /\ ~isClosed'))
          /\ (Close(FALSE) => (~isInitialized' /\ isClosed'))]_vars

\* C19 witness: an initialized and seeded Database has been closed
C19_Witness ==
    /\ result.op = "close"
    /\ isClosed
    /\ ~isInitialized
    /\ DOMAIN widgets # {}

\* the seed data set in freshly created tables
SeedDataSet ==
    [widgetTypes |-> [i \in DOMAIN SeedWidgetTypes |-> SeedWidgetTypes[i]],
     widgets |-> [i \in DOMAIN SeedWidgets |->
                     [widgetTypeId |-> SeedWidgets[i].widgetType,
                      name |-> SeedWidgets[i].name,
                      isActive |-> SeedWidgets[i].isActive]]]

\* C20: initialize(true) on a Database that is not closed succeeds unless
\* authenticate, sync or a seeding statement fails, and when it succeeds the
\* Database is initialized and its tables hold exactly the seed data set.
C20_ForcedInitializeReseeds ==
    [][\A failure \in InitializeFailures :
          (~isClosed /\ Initialize(TRUE, failure)) =>
              /\ (failure \in {"none", "count"} => result'.error = "none")
              /\ (result'.error = "none" =>
                    /\ isInitialized'
                    /\ widgetTypes' = SeedDataSet.widgetTypes
                    /\ widgets' = SeedDataSet.widgets)]_vars

\* C20 witness: a forced initialize succeeded on tables that held more rows
\* than the seed data set, and the tables hold the seed data set
C20_Witness ==
    /\ result.op = "initialize"
    /\ result.input.force
    /\ result.error = "none"
    /\ result.rows > Len(SeedWidgetTypes) + Len(SeedWidgets)
    /\ widgetTypes = SeedDataSet.widgetTypes
    /\ widgets = SeedDataSet.widgets

\* the seed rows were inserted next to the rows the tables held
SeedInserted ==
    /\ \A t \in DOMAIN widgetTypes : t \in DOMAIN widgetTypes' /\ widgetTypes'[t] = widgetTypes[t]
    /\ \A w \in DOMAIN widgets : w \in DOMAIN widgets' /\ widgets'[w] = widgets[w]
    /\ Cardinality(DOMAIN widgetTypes') = Cardinality(DOMAIN widgetTypes) + Len(SeedWidgetTypes)
    /\ Cardinality(DOMAIN widgets') = Cardinality(DOMAIN widgets) + Len(SeedWidgets)
    /\ \A i \in DOMAIN SeedWidgetTypes :
          \E t \in DOMAIN widgetTypes' \ DOMAIN widgetTypes : widgetTypes'[t] = SeedWidgetTypes[i]

\* C21: a non-forced initialize that gets past authenticate and sync seeds
\* exactly when both tables are empty or a count query fails. When the
\* counts succeed and a table has rows, the call succeeds and both tables
\* are left as they were; when both tables are empty the seed rows are
\* inserted.
C21_SeedsOnlyEmptyTables ==
    [][\A failure \in InitializeFailures \ {"authenticate", "sync"} :
          (~isInitialized /\ ~isClosed /\ Initialize(FALSE, failure)) =>
              LET empty == DOMAIN widgetTypes = {} /\ DOMAIN widgets = {} IN
              /\ (failure # "count" /\ ~empty) =>
                    (result'.error = "none" /\ UNCHANGED <<widgetTypes, widgets>>)
              /\ (empty /\ failure \in {"none", "count"}) => result'.error = "none"
              /\ ((empty \/ failure = "count") /\ result'.error = "none") => SeedInserted
              /\ ((empty \/ failure = "count") /\ result'.error # "none") =>
                    widgets' = widgets]_vars

\* C21 witness: a non-forced initialize succeeded without seeding on a
\* widget_types table with rows and an empty widgets table
C21_Witness ==
    /\ result.op = "initialize"
    /\ ~result.input.force
    /\ result.error = "none"
    /\ result.rows > 0
    /\ isInitialized
    /\ DOMAIN widgetTypes # {}
    /\ DOMAIN widgets = {}

\* C22: healthCheck() never rejects. On a closed Database it returns
\* 'unhealthy' with 'Database connection is closed'; otherwise 'healthy'
\* exactly when authenticate succeeds, and 'unhealthy' with the message of
\* the error, or 'Unknown error' for a thrown value that is not an Error.
C22_HealthCheckReports ==
    result.op = "healthCheck" =>
        /\ result.error = "none"
        /\ isClosed => result.value =
              [status |-> "unhealthy", details |-> "Database connection is closed"]
        /\ ~isClosed =>
              /\ result.value.status = "healthy" <=> result.input.thrown = "none"
              /\ result.input.thrown = "Authentication failed" =>
                    result.value = [status |-> "unhealthy", details |-> "Authentication failed"]
              /\ result.input.thrown = "not an Error" =>
                    result.value = [status |-> "unhealthy", details |-> "Unknown error"]

\* C22 witness: healthCheck on a closed Database answered unhealthy
C22_Witness ==
    /\ result.op = "healthCheck"
    /\ isClosed
    /\ result.value.status = "unhealthy"

\* C27 as stated: an initialize call that throws leaves the Database not
\* marked initialized.
C27_FailedInitializeNotInitialized ==
    [][(result'.op = "initialize" /\ result'.error # "none") => ~isInitialized']_vars

\* C28 as stated: once a close() call has returned, isClosed is true and
\* isInitialized is false.
C28_ClosedAfterClose ==
    result.op = "close" => (isClosed /\ ~isInitialized)

LoadPending(c) == c \in DOMAIN calls /\ calls[c].op = "loadData"

\* C23: every load or refresh started in WidgetContextProvider eventually
\* finishes, and it finishes with loading = false, with error the failure's
\* message when the fetch failed and with error null when it succeeded
C23_LoadFinishes ==
    /\ \A c \in 1..MaxCalls : LoadPending(c) ~> ~LoadPending(c)
    /\ [][\A c \in 1..MaxCalls, thrown \in {"none", "Network error"} :
             ((WidgetsLoaded(c, thrown) \/ WidgetTypesLoaded(c, thrown)) /\ ~LoadPending(c)') =>
                 /\ provider'.loading = FALSE
                 /\ provider'.error = IF thrown = "none" THEN "null" ELSE thrown]_vars

\* C24: deleteWidget(id) changes the provider's widget list only when the
\* cache remove succeeded: then exactly the widgets with that id are gone
\* and the others keep their order; when it failed the list is as before
\* and the error is rethrown
C24_DeleteChangesListOnSuccess ==
    [][/\ \A id \in 1..MaxDeleted : deleteWidget(id) => provider'.widgets = provider.widgets
       /\ \A c \in 1..MaxCalls, failure \in {"none", "Network error"} :
             WidgetRemoved(c, failure) =>
                 LET id == calls[c].id IN
                 IF failure = "none" /\ id \in DOMAIN widgets
                 THEN /\ provider'.widgets = SelectSeq(provider.widgets, LAMBDA w : w # id)
                      /\ result'.error = "none"
                 ELSE /\ provider'.widgets = provider.widgets
                      /\ result'.error # "none"
                      /\ (failure # "none" => result'.error = failure)]_vars

\* widget 2 was deleted from the loaded list of the seed widgets: widgets 1
\* and 3 are now next to each other
C24_Witness ==
    /\ result.op = "deleteWidget"
    /\ result.error = "none"
    /\ result.key = 2
    /\ Len(provider.widgets) = Len(SeedWidgets) - 1
    /\ provider.widgets[1] = 1
    /\ provider.widgets[2] = 3

\* the widgets whose deleteWidget has resolved: ids are never handed out
\* twice, and a row leaves the table only when a remove succeeds
DeletedWidgets == (1..(nextWidgetId - 1)) \ DOMAIN widgets

\* C29: once deleteWidget(id) has resolved, the provider's widget list never
\* holds a widget with that id again, also when a loadData was pending
\* while the delete ran
C29_DeletedStaysOut ==
    \A id \in DeletedWidgets :
        \A i \in DOMAIN provider.widgets : provider.widgets[i] # id

\* a getWidgetCache() call resolves in this step
CacheResolves ==
    \/ _widgetCache # "null" /\ \E browser \in BOOLEAN : getWidgetCache(browser)
    \/ \E c \in 1..MaxCalls : WidgetCacheImported(c, "none")

\* C30: getWidgetCacheSync() throws 'Widget cache not yet initialized. Call
\* getWidgetCache() first.' as long as no getWidgetCache() call has
\* resolved (_widgetCache is null until the first one resolves), and from
\* then on getWidgetCache() and getWidgetCacheSync() return one and the
\* same cache
C30_OneCacheOnceResolved ==
    [][/\ (_widgetCache = "null" /\ _widgetCache' # "null") => CacheResolves
       /\ CacheResolves =>
             (_widgetCache' # "null" /\ result'.error = "none" /\ result'.value = _widgetCache')
       /\ _widgetCache # "null" => _widgetCache' = _widgetCache
       /\ getWidgetCacheSync =>
             IF _widgetCache = "null"
             THEN result'.error = "Widget cache not yet initialized. Call getWidgetCache() first."
             ELSE result'.error = "none" /\ result'.value = _widgetCache]_vars

\* getWidgetCacheSync() returned the cache a getWidgetCache() call had set
C30_Witness ==
    /\ result.op = "getWidgetCacheSync"
    /\ result.error = "none"
    /\ result.value = _widgetCache
    /\ _widgetCache # "null"

====
